---- MODULE Spec2Model ----
(***************************************************************************)
(* A model of the profiling core: the Runnable start/stop lifecycle, the   *)
(* deferral scope and frame_stack (profiling/utils.py), the samplers and   *)
(* their sampling events (profiling/sampling/samplers.py), the contextual  *)
(* timer and GreenletTimer (profiling/tracing/timers.py) and the Profiler  *)
(* (profiling/profiler.py).                                                *)
(*                                                                         *)
(* Each component has its own variables, initial condition, next-state     *)
(* relation and specification; a specification leaves the variables of     *)
(* the other components at their initial values.                           *)
(***************************************************************************)
EXTENDS Integers, Sequences, FiniteSets, TLC

VARIABLES
    \* ---- Runnable (utils.py:20-85), with an arbitrary run() ----
    runBody,      \* what run() yields, in order, before it terminates
    runTerm,      \* how run() terminates: "return" or "raise"
    running,      \* Runnable._running: None or the generator run() returned
    calls,        \* history: the start()/stop() calls made and their outcomes
    \* ---- one deferral scope (utils.py:121-140) ----
    deferred,     \* the list `deferred`: the registered actions not yet run
    scope,        \* "body", "finally" (the loop of line 138) or "exited"
    pending,      \* the error the scope body raised, "none" if it returned
    escaped,      \* what left the scope: "none" or the error propagated
    registered,   \* history: every action registered, in registration order
    executed,     \* history: every action called, in call order
    \* ---- samplers (samplers.py) and the process-wide slots they use ----
    variant,      \* the class of the sampler instances: "itimer" or "tracing"
    instances,    \* the sampler instances of the program
    proc,         \* the process: SIGPROF handler, ITIMER_PROF, profile hooks
    samplerRunning, \* per sampler, Runnable._running
    gen,          \* per sampler, the frame of the generator run() returned
    cur,          \* the start()/stop() call in progress, None between calls
    lastCall,     \* the most recent call that returned or raised
    pre,          \* history: per sampler, proc when its start() was entered
    \* ---- ContextualTimer (timers.py:27-54) ----
    clock,        \* what clock() returns now, in milliseconds
    times,        \* ContextualTimer._contextual_times
    ops,          \* history: the pause()/resume() calls, with the clock and
                  \* elapsed(context) at the moment of each call
    \* ---- frame_stack (utils.py:88-99) ----
    chain,        \* f_code of the frames of one call stack, outermost first;
                  \* frame i is the i-th of them and its f_back is frame i-1
    frame,        \* the argument frame: a frame of the chain, 0 for None
    base_frame,   \* the argument base_frame: a frame, 0 for None
    ignoring_codes, \* the argument ignoring_codes
    returned,     \* None, or the deque frame_stack returned
    \* ---- Profiler (profiler.py:18-58), a Runnable: it also uses runBody,
    \*      runTerm and running ----
    stats,        \* Profiler.stats: the number of samples the root holds
    cpu_time_started,  \* Profiler._cpu_time_started, None while not set
    wall_time_started, \* Profiler._wall_time_started, None while not set
    at,           \* where Profiler.start() is: "idle" between calls, "L39"
                  \* before line 39
    cpu_clock,    \* what time.clock() returns now
    wall_clock,   \* what time.time() returns now
    result_value, \* None, or what the latest result() returned
    event,        \* history: the latest call made, or sample given, with
                  \* the clocks and the profiler when it was entered
    \* ---- GreenletTimer (timers.py:74-91), a ContextualTimer: it also uses
    \*      clock and times ----
    tracer,       \* the trace hook of greenlet: None or the one settrace set
    current,      \* the fiber that is scheduled now
    started_at,   \* history: None, or the clock when the timer was started
    switches,     \* history: the switches traced, with the clock of each
    \* ---- sampling events (samplers.py:43-48, 66-74): the threads of the
    \*      program and the callbacks of a sampler at work; they also use
    \*      the sampler variables and clock ----
    threads,      \* per worker thread: "unborn", "alive" or "dead"
    thread_profile, \* per worker thread, its profile function (the main
                  \* thread's is proc.sys_profile)
    sampled_at,   \* per sampler, TracingSampler.sampled_at
    in_profile,   \* per worker thread: None, or the sampler and the clock
                  \* reading t of the _profile call that has passed line 68
    accepted_at,  \* history: per sampler, None or the t of the latest
                  \* event that was sampled
    sampling      \* history: None, or the latest sampling event

runnableVars == <<runBody, runTerm, running, calls>>
deferralVars == <<deferred, scope, pending, escaped, registered, executed>>
samplerVars == <<variant, instances, proc, samplerRunning, gen, cur, lastCall, pre>>
timerVars == <<clock, times, ops>>
framesVars == <<chain, frame, base_frame, ignoring_codes, returned>>
profilerVars == <<stats, cpu_time_started, wall_time_started, at, cpu_clock, wall_clock, result_value, event>>
greenletVars == <<tracer, current, started_at, switches>>
samplingVars == <<threads, thread_profile, sampled_at, in_profile, accepted_at, sampling>>
vars == <<runnableVars, deferralVars, samplerVars, timerVars, framesVars, profilerVars, greenletVars, samplingVars>>

\* What an action of one component leaves unchanged: the other components.
exceptRunnable == <<deferralVars, samplerVars, timerVars, framesVars, profilerVars, greenletVars, samplingVars>>
exceptDeferral == <<runnableVars, samplerVars, timerVars, framesVars, profilerVars, greenletVars, samplingVars>>
exceptSampler == <<runnableVars, deferralVars, timerVars, framesVars, profilerVars, greenletVars, samplingVars>>
exceptTimer == <<runnableVars, deferralVars, samplerVars, framesVars, profilerVars, greenletVars, samplingVars>>
exceptFrames == <<runnableVars, deferralVars, samplerVars, timerVars, profilerVars, greenletVars, samplingVars>>
exceptProfiler == <<deferralVars, samplerVars, timerVars, framesVars, greenletVars, samplingVars>>
exceptGreenlet == <<runnableVars, deferralVars, samplerVars, framesVars, profilerVars, samplingVars>>
exceptSampling == <<runnableVars, deferralVars, framesVars, profilerVars, greenletVars>>

\* Python's None and a present value, as sequences of length 0 and 1.
None == <<>>
Some(x) == <<x>>

\* The variables of a component no specification is exercising.
RunnableIdle ==
    /\ runBody = <<>>
    /\ runTerm = "return"
    /\ running = None
    /\ calls = <<>>

DeferralIdle ==
    /\ deferred = <<>>
    /\ scope = "body"
    /\ pending = "none"
    /\ escaped = "none"
    /\ registered = <<>>
    /\ executed = <<>>

\* Number of sampler instances a program creates at most.
NSamplers == 2
Samplers == 1..NSamplers

\* The frame of a generator that does not exist (yet).
NoGenerator ==
    [pc |-> "none", deferred |-> <<>>, exc |-> "none",
     prev_handle |-> None, prev_itimer |-> None]

SamplerIdle ==
    /\ variant = "itimer"
    /\ instances = {}
    /\ proc = [SIGPROF |-> <<"SIG_DFL">>, ITIMER_PROF |-> <<0, 0>>,
               sys_profile |-> None, threading_profile |-> None]
    /\ samplerRunning = [s \in Samplers |-> None]
    /\ gen = [s \in Samplers |-> NoGenerator]
    /\ cur = None
    /\ lastCall = None
    /\ pre = [s \in Samplers |-> None]

\* The empty dict.
EmptyDict == [c \in {} |-> None]

TimerIdle ==
    /\ clock = 0
    /\ times = EmptyDict
    /\ ops = <<>>

FramesIdle ==
    /\ chain = <<>>
    /\ frame = 0
    /\ base_frame = 0
    /\ ignoring_codes = {}
    /\ returned = None

ProfilerIdle ==
    /\ stats = 0
    /\ cpu_time_started = None
    /\ wall_time_started = None
    /\ at = "idle"
    /\ cpu_clock = 0
    /\ wall_clock = 0
    /\ result_value = None
    /\ event = None

GreenletIdle ==
    /\ tracer = None
    /\ current = "A"
    /\ started_at = None
    /\ switches = <<>>

\* The threads of the program: the main thread, which makes the start() and
\* stop() calls and runs the signal handlers, and the others.
Workers == {"w1"}
Threads == {"main"} \cup Workers

SamplingIdle ==
    /\ threads = [w \in Workers |-> "unborn"]
    /\ thread_profile = [w \in Workers |-> None]
    /\ sampled_at = [s \in Samplers |-> 0]
    /\ in_profile = [w \in Workers |-> None]
    /\ accepted_at = [s \in Samplers |-> None]
    /\ sampling = None

\* The sequence s reversed.
Reverse(s) == [i \in 1..Len(s) |-> s[Len(s) + 1 - i]]

(***************************************************************************)
(* Runnable                                                                *)
(***************************************************************************)

\* Longest run() body enumerated (number of yields).
MaxYields == 2
\* Number of start()/stop() calls in one behaviour.
MaxCalls == 7

Yields == {"yield_none", "yield_value"}
Terms == {"return", "raise"}

RunBodies == UNION {[1..n -> Yields] : n \in 0..MaxYields}

\* A generator object: pc is the next yield of the body to reach, done is
\* set once the generator has terminated (returned or raised).
NewGenerator == [pc |-> 1, done |-> FALSE]

\* next(generator): run the generator to its next suspension or to its end.
\* out is what the caller observes: the yielded thing, "StopIteration", or
\* "RunError" for an exception raised by run() itself.
GenNext(body, term, g) ==
    IF g.done THEN [gen |-> g, out |-> "StopIteration"]
    ELSE IF g.pc <= Len(body)
         THEN [gen |-> [g EXCEPT !.pc = g.pc + 1], out |-> body[g.pc]]
         ELSE [gen |-> [g EXCEPT !.done = TRUE],
               out |-> IF term = "return" THEN "StopIteration" ELSE "RunError"]

\* Runnable.is_running
is_running(r) == r # None

\* start without the 'Already started' check: a running instance is restarted.
start_Unguarded(body, term, r) ==
    LET n == GenNext(body, term, NewGenerator)
    IN  [running |-> Some(n.gen),
         result  |-> CASE n.out = "StopIteration" -> "TypeError"
                       [] n.out = "RunError"      -> "RunError"
                       [] n.out = "yield_value"   -> "TypeError"
                       [] OTHER                   -> "ok"]

\* start without the check of what run() yielded.
start_IgnoresYielded(body, term, r) ==
    IF is_running(r)
    THEN [running |-> r, result |-> "RuntimeError"]
    ELSE LET n == GenNext(body, term, NewGenerator)
         IN  [running |-> Some(n.gen),
              result  |-> CASE n.out = "StopIteration" -> "TypeError"
                            [] n.out = "RunError"      -> "RunError"
                            [] OTHER                   -> "ok"]

\* Runnable.start: the new value of _running and the outcome of the call.
start(body, term, r) ==
    IF is_running(r)
    THEN [running |-> r, result |-> "RuntimeError"]
    ELSE LET n == GenNext(body, term, NewGenerator)
         IN  [running |-> Some(n.gen),
              result  |-> CASE n.out = "StopIteration" -> "TypeError"
                            [] n.out = "RunError"      -> "RunError"
                            [] n.out = "yield_value"   -> "TypeError"
                            [] OTHER                   -> "ok"]

\* Runnable.stop: the new value of _running and the outcome of the call.
stop(body, term, r) ==
    IF ~is_running(r)
    THEN [running |-> r, result |-> "RuntimeError"]
    ELSE LET n == GenNext(body, term, r[1])
         IN  [running |-> None,
              result  |-> CASE n.out = "StopIteration" -> "ok"
                            [] n.out = "RunError"      -> "RunError"
                            [] OTHER                   -> "TypeError"]

RunnableInit ==
    /\ runBody \in RunBodies
    /\ runTerm \in Terms
    /\ running = None
    /\ calls = <<>>

Start ==
    /\ Len(calls) < MaxCalls
    /\ LET c == start(runBody, runTerm, running)
       IN  /\ running' = c.running
           /\ calls' = Append(calls, [op |-> "start", was |-> is_running(running),
                                      result |-> c.result])
    /\ UNCHANGED <<runBody, runTerm, exceptRunnable>>

Stop ==
    /\ Len(calls) < MaxCalls
    /\ LET c == stop(runBody, runTerm, running)
       IN  /\ running' = c.running
           /\ calls' = Append(calls, [op |-> "stop", was |-> is_running(running),
                                      result |-> c.result])
    /\ UNCHANGED <<runBody, runTerm, exceptRunnable>>

RunnableNext == Start \/ Stop

InitRunnable == RunnableInit /\ DeferralIdle /\ SamplerIdle /\ TimerIdle
    /\ FramesIdle
    /\ ProfilerIdle
    /\ GreenletIdle
    /\ SamplingIdle

SpecRunnable == InitRunnable /\ [][RunnableNext]_vars

\* run() yields exactly once, without a value, and then returns.
Canonical == runBody = <<"yield_none">> /\ runTerm = "return"

\* Call i directly follows a start() call: by the lifecycle of spec section
\* 3 the instance is then Running, and otherwise Stopped.
AfterStart(i) == i > 1 /\ calls[i - 1].op = "start"

\* C1: for a Runnable whose run() yields exactly once without a value,
\* every start() made while the instance is stopped and every stop() made
\* while it is running succeeds (so start(); stop() can be repeated), every
\* start() made while it is running fails with RuntimeError, and every
\* stop() made while it is not running (never started, or already stopped)
\* fails with RuntimeError.
C1_Lifecycle ==
    Canonical =>
        \A i \in 1..Len(calls) :
            calls[i].result =
                IF (calls[i].op = "start") = AfterStart(i)
                THEN "RuntimeError" ELSE "ok"

\* start(); stop() twice over, then a stop() of the stopped instance, then
\* start() and a start() of the running instance.
C1_Witness ==
    /\ Canonical
    /\ Len(calls) = 7
    /\ [i \in 1..7 |-> calls[i].op] =
         <<"start", "stop", "start", "stop", "stop", "start", "start">>
    /\ [i \in 1..7 |-> calls[i].result] =
         <<"ok", "ok", "ok", "ok", "RuntimeError", "ok", "RuntimeError">>

\* run() returns before its first suspension, or its first yield has a value.
StartContractViolation ==
    \/ runBody = <<>> /\ runTerm = "return"
    \/ Len(runBody) >= 1 /\ runBody[1] = "yield_value"

\* The routine, resumed after its first suspension, suspends again.
StopContractViolation == Len(runBody) >= 2

\* C2: a call ends in TypeError exactly when it is a start() of a stopped
\* instance whose run() returns before its first suspension or yields a
\* value, or a stop() of a started instance whose resumed routine suspends
\* again; with a run() that yields exactly once without a value no call
\* ends in TypeError.
C2_ContractError ==
    /\ \A i \in 1..Len(calls) :
           (calls[i].result = "TypeError") <=>
               IF calls[i].op = "start"
               THEN ~AfterStart(i) /\ StartContractViolation
               ELSE AfterStart(i) /\ StopContractViolation
    /\ Canonical => \A i \in 1..Len(calls) : calls[i].result # "TypeError"

\* A run() that yields a value and then yields again: start() and the
\* stop() after it both end in TypeError.
C2_Witness ==
    /\ Len(runBody) = 2 /\ runBody[1] = "yield_value"
    /\ Len(calls) >= 2
    /\ calls[1].op = "start" /\ calls[1].result = "TypeError"
    /\ calls[2].op = "stop" /\ calls[2].result = "TypeError"


(***************************************************************************)
(* deferral                                                                *)
(***************************************************************************)

\* Number of actions one scope registers at most.
MaxDeferred == 3

\* The callables a scope body may register, and whether the call raises.
Callables == {"f", "g"}
Actions == [f : Callables, raises : BOOLEAN]

\* defer(f, *a, **k), line 134: deferred.append((f, a, k)).
defer(d, a) == Append(d, a)

\* One turn of the loop of lines 138-140: deferred.pop(), then the call.
\* The popped action is called; if the call raises, the exception leaves
\* the finally block and the loop with it.
popped(d) == d[Len(d)]
rest(d) == SubSeq(d, 1, Len(d) - 1)

DeferralInit == DeferralIdle

\* The body registers an action.
Defer(a) ==
    /\ scope = "body"
    /\ Len(registered) < MaxDeferred
    /\ deferred' = defer(deferred, a)
    /\ registered' = Append(registered, a)
    /\ UNCHANGED <<scope, pending, escaped, executed, exceptDeferral>>

\* The body completes normally: control enters the finally block.
BodyReturns ==
    /\ scope = "body"
    /\ scope' = "finally"
    /\ UNCHANGED <<deferred, pending, escaped, registered, executed, exceptDeferral>>

\* The body raises: control enters the finally block with the error pending.
BodyRaises ==
    /\ scope = "body"
    /\ scope' = "finally"
    /\ pending' = "BodyError"
    /\ UNCHANGED <<deferred, escaped, registered, executed, exceptDeferral>>

\* while deferred: f, a, k = deferred.pop(); f(*a, **k)
RunDeferred ==
    /\ scope = "finally"
    /\ deferred # <<>>
    /\ deferred' = rest(deferred)
    /\ executed' = Append(executed, popped(deferred))
    /\ IF popped(deferred).raises
       THEN scope' = "exited" /\ escaped' = "ActionError"
       ELSE UNCHANGED <<scope, escaped>>
    /\ UNCHANGED <<pending, registered, exceptDeferral>>

\* The loop ends: the finally block completes and the pending error, if
\* any, is re-raised.
ScopeExits ==
    /\ scope = "finally"
    /\ deferred = <<>>
    /\ scope' = "exited"
    /\ escaped' = pending
    /\ UNCHANGED <<deferred, pending, registered, executed, exceptDeferral>>

DeferralNext ==
    \/ \E a \in Actions : Defer(a)
    \/ BodyReturns
    \/ BodyRaises
    \/ RunDeferred
    \/ ScopeExits

InitDeferral == DeferralInit /\ RunnableIdle /\ SamplerIdle /\ TimerIdle
    /\ FramesIdle
    /\ ProfilerIdle
    /\ GreenletIdle
    /\ SamplingIdle

SpecDeferral == InitDeferral /\ [][DeferralNext]_vars

\* C3: when control has left a deferral scope, whether its body completed
\* or raised after registering some of its actions, the actions called are
\* exactly the registered ones, each once, in reverse order of registration.
C3_ReverseOnce ==
    scope = "exited" => executed = Reverse(registered)

\* C4: when control has left a deferral scope, normally or by an error,
\* every registered action has been called, also when one of the actions
\* raised while others were still registered; and an error pending from
\* the body has not been swallowed.
C4_AllRunThenPropagate ==
    scope = "exited" =>
        /\ Len(executed) = Len(registered)
        /\ pending # "none" => escaped # "none"


(***************************************************************************)
(* Samplers                                                                *)
(*                                                                         *)
(* The program is single-threaded with respect to start() and stop(): one  *)
(* call is in progress at a time (cur).  A call advances the generator of  *)
(* its sampler one source line at a time.  A call that installs something  *)
(* in the process (signal.signal, signal.setitimer, sys.setprofile,        *)
(* threading.setprofile in run()) may raise instead; the deferred calls    *)
(* put back values the process held before and do not raise.               *)
(***************************************************************************)

\* INTERVAL, samplers.py:21, in milliseconds.
INTERVAL == 1

\* functools.partial(self.handle_signal, weak_profiler) of sampler s.
handle(s) == <<"handle", s>>
\* functools.partial(self._profile, profiler) of sampler s.
profile(s) == <<"profile", s>>

\* A library call f(a) on the process p: the process after it, and what
\* the call returns.  signal.signal and signal.setitimer return the old
\* setting.
call(p, f, a) ==
    CASE f = "signal.signal" ->
           [proc |-> [p EXCEPT !.SIGPROF = a], ret |-> p.SIGPROF]
      [] f = "signal.setitimer" ->
           [proc |-> [p EXCEPT !.ITIMER_PROF = a], ret |-> p.ITIMER_PROF]
      [] f = "sys.setprofile" ->
           [proc |-> [p EXCEPT !.sys_profile = a], ret |-> None]
      [] f = "threading.setprofile" ->
           [proc |-> [p EXCEPT !.threading_profile = a], ret |-> None]

\* An exception raised in the with block: control goes to deferral's
\* finally block with the exception pending.
raised(g) == [g EXCEPT !.pc = "finally", !.exc = "Error"]

\* ItimerSampler.run deferring a disarm of the timer, setitimer(ITIMER_PROF,
\* 0, 0), instead of the restoration of the previous setting.
ItimerSampler_run_Disarms(s, g, p, fail) ==
    CASE g.pc = "L55" ->
           IF fail THEN [gen |-> raised(g), proc |-> p]
           ELSE LET c == call(p, "signal.signal", handle(s))
                IN  [gen |-> [g EXCEPT !.pc = "L56", !.prev_handle = c.ret],
                     proc |-> c.proc]
      [] g.pc = "L56" ->
           [gen |-> [g EXCEPT !.pc = "L57",
                              !.deferred = defer(@, [f |-> "signal.signal",
                                                     a |-> g.prev_handle])],
            proc |-> p]
      [] g.pc = "L57" ->
           IF fail THEN [gen |-> raised(g), proc |-> p]
           ELSE LET c == call(p, "signal.setitimer", <<INTERVAL, INTERVAL>>)
                IN  [gen |-> [g EXCEPT !.pc = "L58", !.prev_itimer = c.ret],
                     proc |-> c.proc]
      [] g.pc = "L58" ->
           [gen |-> [g EXCEPT !.pc = "yield",
                              !.deferred = defer(@, [f |-> "signal.setitimer",
                                                     a |-> <<0, 0>>])],
            proc |-> p]

\* ItimerSampler.run, one line: the generator frame g of sampler s and the
\* process p after the line at g.pc; fail says the library call of the
\* line raises.
ItimerSampler_run(s, g, p, fail) ==
    CASE g.pc = "L55" ->
           IF fail THEN [gen |-> raised(g), proc |-> p]
           ELSE LET c == call(p, "signal.signal", handle(s))
                IN  [gen |-> [g EXCEPT !.pc = "L56", !.prev_handle = c.ret],
                     proc |-> c.proc]
      [] g.pc = "L56" ->
           [gen |-> [g EXCEPT !.pc = "L57",
                              !.deferred = defer(@, [f |-> "signal.signal",
                                                     a |-> g.prev_handle])],
            proc |-> p]
      [] g.pc = "L57" ->
           IF fail THEN [gen |-> raised(g), proc |-> p]
           ELSE LET c == call(p, "signal.setitimer", <<INTERVAL, INTERVAL>>)
                IN  [gen |-> [g EXCEPT !.pc = "L58", !.prev_itimer = c.ret],
                     proc |-> c.proc]
      [] g.pc = "L58" ->
           [gen |-> [g EXCEPT !.pc = "yield",
                              !.deferred = defer(@, [f |-> "signal.setitimer",
                                                     a |-> g.prev_itimer])],
            proc |-> p]

\* TracingSampler.run, one line.
TracingSampler_run(s, g, p, fail) ==
    CASE g.pc = "L79" ->
           IF fail THEN [gen |-> raised(g), proc |-> p]
           ELSE [gen |-> [g EXCEPT !.pc = "L80"],
                 proc |-> call(p, "sys.setprofile", profile(s)).proc]
      [] g.pc = "L80" ->
           [gen |-> [g EXCEPT !.pc = "L81",
                              !.deferred = defer(@, [f |-> "sys.setprofile",
                                                     a |-> None])],
            proc |-> p]
      [] g.pc = "L81" ->
           IF fail THEN [gen |-> raised(g), proc |-> p]
           ELSE [gen |-> [g EXCEPT !.pc = "L82"],
                 proc |-> call(p, "threading.setprofile", profile(s)).proc]
      [] g.pc = "L82" ->
           [gen |-> [g EXCEPT !.pc = "yield",
                              !.deferred = defer(@, [f |-> "threading.setprofile",
                                                     a |-> None])],
            proc |-> p]

\* The lines of run() before its yield.
SetupLines == {"L55", "L56", "L57", "L58", "L79", "L80", "L81", "L82"}

\* self.run(profiler): a new generator, not yet started.
NewSamplerGenerator(v) ==
    [NoGenerator EXCEPT !.pc = IF v = "itimer" THEN "L55" ELSE "L79"]

\* The finally loop taking the oldest deferred call first.
unwind_OldestFirst(g, p) ==
    LET a == Head(g.deferred)
    IN  [gen |-> [g EXCEPT !.deferred = Tail(@)], proc |-> call(p, a.f, a.a).proc]

\* One turn of deferral's loop (utils.py:138-140) in the generator frame g.
unwind(g, p) ==
    LET a == popped(g.deferred)
    IN  [gen |-> [g EXCEPT !.deferred = rest(@)], proc |-> call(p, a.f, a.a).proc]

\* The settings the process may hold before the program touches them:
\* the default or another tool's handler, a disarmed or armed timer, no
\* profile hook or another tool's.
SamplerInit(n) ==
    /\ variant \in {"itimer", "tracing"}
    /\ instances = 1..n
    /\ \E h \in {<<"SIG_DFL">>, <<"other">>}, t \in {<<0, 0>>, <<3, 5>>},
          sp \in {None, <<"other">>}, tp \in {None, <<"other">>} :
          /\ variant = "itimer" => sp = None /\ tp = None
          /\ variant = "tracing" => h = <<"SIG_DFL">> /\ t = <<0, 0>>
          /\ proc = [SIGPROF |-> h, ITIMER_PROF |-> t,
                     sys_profile |-> sp, threading_profile |-> tp]
    /\ samplerRunning = [s \in Samplers |-> None]
    /\ gen = [s \in Samplers |-> NoGenerator]
    /\ cur = None
    /\ lastCall = None
    /\ pre = [s \in Samplers |-> None]

Returned(s, op, result) == Some([s |-> s, op |-> op, result |-> result])

\* Runnable.start of sampler s, up to next(self._running).
SamplerStart(s) ==
    /\ cur = None
    /\ s \in instances
    /\ IF is_running(samplerRunning[s])
       THEN /\ lastCall' = Returned(s, "start", "RuntimeError")
            /\ UNCHANGED <<samplerRunning, gen, cur, pre>>
       ELSE /\ samplerRunning' = [samplerRunning EXCEPT ![s] = Some("generator")]
            /\ gen' = [gen EXCEPT ![s] = NewSamplerGenerator(variant)]
            /\ cur' = Some([s |-> s, op |-> "start"])
            /\ pre' = [pre EXCEPT ![s] = Some(proc)]
            /\ UNCHANGED lastCall
    /\ UNCHANGED <<variant, instances, proc, exceptSampler>>

\* next(self._running) in start(): one line of run() before the yield.
RunLine(s) ==
    /\ cur = Some([s |-> s, op |-> "start"])
    /\ gen[s].pc \in SetupLines
    /\ \E fail \in BOOLEAN :
          LET n == IF variant = "itimer"
                   THEN ItimerSampler_run(s, gen[s], proc, fail)
                   ELSE TracingSampler_run(s, gen[s], proc, fail)
          IN  /\ gen' = [gen EXCEPT ![s] = n.gen]
              /\ proc' = n.proc
    /\ UNCHANGED <<variant, instances, samplerRunning, cur, lastCall, pre,
                   exceptSampler>>

\* run() reaches its yield: next() returns None and start() returns.
Yield(s) ==
    /\ cur = Some([s |-> s, op |-> "start"])
    /\ gen[s].pc = "yield"
    /\ cur' = None
    /\ lastCall' = Returned(s, "start", "ok")
    /\ UNCHANGED <<variant, instances, proc, samplerRunning, gen, pre,
                   exceptSampler>>

\* Runnable.stop of sampler s, up to next(running): the generator resumes
\* after its yield and leaves the with block, or, if it has terminated
\* already, next() raises StopIteration at once.
SamplerStop(s) ==
    /\ cur = None
    /\ s \in instances
    /\ IF ~is_running(samplerRunning[s])
       THEN /\ lastCall' = Returned(s, "stop", "RuntimeError")
            /\ UNCHANGED <<samplerRunning, gen, cur>>
       ELSE /\ samplerRunning' = [samplerRunning EXCEPT ![s] = None]
            /\ IF gen[s].pc = "yield"
               THEN /\ gen' = [gen EXCEPT ![s].pc = "finally"]
                    /\ cur' = Some([s |-> s, op |-> "stop"])
                    /\ UNCHANGED lastCall
               ELSE /\ lastCall' = Returned(s, "stop", "ok")
                    /\ UNCHANGED <<gen, cur>>
    /\ UNCHANGED <<variant, instances, proc, pre, exceptSampler>>

\* deferral's finally block in the generator of s: one deferred call.
Unwind(s) ==
    /\ cur # None /\ cur[1].s = s
    /\ gen[s].pc = "finally"
    /\ gen[s].deferred # <<>>
    /\ LET n == unwind(gen[s], proc)
       IN  gen' = [gen EXCEPT ![s] = n.gen] /\ proc' = n.proc
    /\ UNCHANGED <<variant, instances, samplerRunning, cur, lastCall, pre,
                   exceptSampler>>

\* The finally block is done and the generator terminates: with the
\* pending exception, which leaves next() and start(); or by returning,
\* which is the StopIteration stop() expects.
Terminate(s) ==
    /\ cur # None /\ cur[1].s = s
    /\ gen[s].pc = "finally"
    /\ gen[s].deferred = <<>>
    /\ gen' = [gen EXCEPT ![s].pc = "done"]
    /\ cur' = None
    /\ lastCall' = Returned(s, cur[1].op,
                            IF gen[s].exc # "none" THEN gen[s].exc ELSE "ok")
    /\ UNCHANGED <<variant, instances, proc, samplerRunning, pre, exceptSampler>>

SamplerNext ==
    \E s \in Samplers :
        \/ SamplerStart(s)
        \/ RunLine(s)
        \/ Yield(s)
        \/ SamplerStop(s)
        \/ Unwind(s)
        \/ Terminate(s)

\* A program with one sampler instance.
InitSampler == SamplerInit(1) /\ RunnableIdle /\ DeferralIdle /\ TimerIdle
    /\ FramesIdle
    /\ ProfilerIdle
    /\ GreenletIdle
    /\ SamplingIdle

SpecSampler == InitSampler /\ [][SamplerNext]_vars

\* A program with NSamplers sampler instances of one class.
InitSamplers == SamplerInit(NSamplers) /\ RunnableIdle /\ DeferralIdle /\ TimerIdle
    /\ FramesIdle
    /\ ProfilerIdle
    /\ GreenletIdle
    /\ SamplingIdle

SpecSamplers == InitSamplers /\ [][SamplerNext]_vars

\* No call is in progress and the last one was `op` of sampler s, which
\* ended with `result`.
JustReturned(s, op, result) ==
    cur = None /\ lastCall = Returned(s, op, result)

\* Sampler s is running: start() has returned, its generator is suspended
\* at the yield of run(), and no stop() has begun.
Installed(s) == cur = None /\ gen[s].pc = "yield"

\* C5: when start() of a sampler has raised the error of a failed setup
\* step of run(), the signal handler, the interval timer and the trace
\* callbacks all hold what they held when start() was called.
C5_FailedSetupUnwound ==
    \A s \in instances :
        JustReturned(s, "start", "Error") => proc = pre[s][1]

\* C6: for an ItimerSampler, when stop() has returned after start(), the
\* SIGPROF handler and the ITIMER_PROF setting are those of the moment
\* start() was called; and while the sampler is running the handler is the
\* sampler's and the timer is set to (interval, interval).
C6_ItimerRestored ==
    variant = "itimer" =>
        \A s \in instances :
            /\ JustReturned(s, "stop", "ok") =>
                   /\ proc.SIGPROF = pre[s][1].SIGPROF
                   /\ proc.ITIMER_PROF = pre[s][1].ITIMER_PROF
            /\ Installed(s) =>
                   /\ proc.SIGPROF = handle(s)
                   /\ proc.ITIMER_PROF = <<INTERVAL, INTERVAL>>

\* start() succeeded and stop() has returned, in a process that had another
\* tool's handler installed and the timer armed.
C6_Witness ==
    /\ variant = "itimer"
    /\ JustReturned(1, "stop", "ok")
    /\ gen[1].pc = "done" /\ gen[1].exc = "none"
    /\ pre[1][1].SIGPROF = <<"other">>
    /\ pre[1][1].ITIMER_PROF = <<3, 5>>

\* C7: for a TracingSampler, when stop() has returned after a start() that
\* succeeded, the sys.setprofile slot and the threading.setprofile slot
\* each hold the callback they held when start() was called.
C7_TracingRestored ==
    variant = "tracing" =>
        \A s \in instances :
            JustReturned(s, "stop", "ok") /\ gen[s].exc = "none" =>
                /\ proc.sys_profile = pre[s][1].sys_profile
                /\ proc.threading_profile = pre[s][1].threading_profile

\* C8: of the sampler instances of a program, at most one is running.
C8_SingleOwner ==
    Cardinality({s \in instances :
                    is_running(samplerRunning[s]) /\ Installed(s)}) <= 1

(***************************************************************************)
(* ContextualTimer                                                         *)
(***************************************************************************)

\* The clock does not pass MaxClock.
MaxClock == 26
\* Number of pause()/resume() calls in one behaviour.
MaxTimerOps == 4

Contexts == {"A", "B"}
\* The steps the clock advances by between calls, in milliseconds.
ClockSteps == {5, 10}

\* self._contextual_times.get(context, (0, 0)): the pair (paused_at,
\* resumed_at) of the context, (0, 0) if the dict has no entry for it.
get(d, context) == IF context \in DOMAIN d THEN d[context] ELSE <<0, Some(0)>>

\* self._contextual_times[context] = pair
set(d, context, pair) == (context :> pair) @@ d

\* ContextualTimer.__call__(context) when clock() returns now.
elapsed(d, context, now) ==
    LET paused_at == get(d, context)[1]
        resumed_at == get(d, context)[2]
    IN  IF resumed_at = None THEN paused_at
        ELSE paused_at + now - resumed_at[1]

\* pause that keeps the old accumulated time instead of taking a snapshot
\* of the elapsed time.
pause_NoSnapshot(d, context, now) == set(d, context, <<get(d, context)[1], None>>)

\* ContextualTimer.pause(context): the dict after the call.
pause(d, context, now) == set(d, context, <<elapsed(d, context, now), None>>)

\* ContextualTimer.resume(context): the dict after the call.
resume(d, context, now) == set(d, context, <<get(d, context)[1], Some(now)>>)

\* A new timer; the clock reads 0 and advances before the first call.
TimerInit ==
    /\ clock = 0
    /\ times = EmptyDict
    /\ ops = <<>>

\* Time passes.
Tick ==
    /\ \E d \in ClockSteps : clock + d <= MaxClock /\ clock' = clock + d
    /\ UNCHANGED <<times, ops, exceptTimer>>

Pause(context) ==
    /\ Len(ops) < MaxTimerOps
    /\ times' = pause(times, context, clock)
    /\ ops' = Append(ops, [op |-> "pause", context |-> context, at |-> clock,
                            value |-> elapsed(times, context, clock)])
    /\ UNCHANGED <<clock, exceptTimer>>

Resume(context) ==
    /\ Len(ops) < MaxTimerOps
    /\ times' = resume(times, context, clock)
    /\ ops' = Append(ops, [op |-> "resume", context |-> context, at |-> clock,
                            value |-> elapsed(times, context, clock)])
    /\ UNCHANGED <<clock, exceptTimer>>

TimerNext ==
    \/ Tick
    \/ \E context \in Contexts : Pause(context) \/ Resume(context)

InitTimer == TimerInit /\ RunnableIdle /\ DeferralIdle /\ SamplerIdle
    /\ FramesIdle
    /\ ProfilerIdle
    /\ GreenletIdle
    /\ SamplingIdle

SpecTimer == InitTimer /\ [][TimerNext]_vars

\* The calls made on a context, as indices of ops; the largest of a set.
OpsOn(context) == {i \in 1..Len(ops) : ops[i].context = context}
Max(S) == CHOOSE m \in S : \A x \in S : x <= m

\* ops begins with resume(a) at t, pause(a) at t + 10, resume(b) at t + 20,
\* the first calls made on the timer.
Scenario(a, b) ==
    /\ Len(ops) >= 3
    /\ ops[1].op = "resume" /\ ops[1].context = a
    /\ ops[2].op = "pause" /\ ops[2].context = a /\ ops[2].at = ops[1].at + 10
    /\ ops[3].op = "resume" /\ ops[3].context = b /\ ops[3].at = ops[1].at + 20

\* C9: once pause(ctx) was the last call on ctx, elapsed(ctx) is its value
\* at the moment of that pause, whatever the clock and the calls on other
\* contexts since (a pause directly after a pause records the same
\* value); once resume(ctx) was the last call on ctx and the call before
\* it on ctx was a pause, elapsed(ctx) is the value at that pause plus the
\* time since the resume.  And right after resume(A) at t, pause(A) at
\* t + 10, resume(B) at t + 20 on a new timer, elapsed(A) = 10 and
\* elapsed(B) = 0.
C9_PauseResume ==
    /\ \A context \in Contexts :
          OpsOn(context) # {} =>
             LET i == Max(OpsOn(context))
                 before == {j \in OpsOn(context) : j < i}
             IN  /\ ops[i].op = "pause" =>
                        elapsed(times, context, clock) = ops[i].value
                 /\ ops[i].op = "pause" /\ before # {}
                        /\ ops[Max(before)].op = "pause" =>
                        ops[i].value = ops[Max(before)].value
                 /\ ops[i].op = "resume" /\ before # {}
                        /\ ops[Max(before)].op = "pause" =>
                        elapsed(times, context, clock) =
                            ops[Max(before)].value + (clock - ops[i].at)
    /\ \A a, b \in Contexts :
          a # b /\ Scenario(a, b) /\ Len(ops) = 3 /\ clock = ops[3].at =>
             /\ elapsed(times, a, clock) = 10
             /\ elapsed(times, b, clock) = 0

\* The scenario, followed by resume(A) and 5 ms: elapsed(A) is 15.
C9_Witness ==
    /\ Scenario("A", "B")
    /\ Len(ops) = 4
    /\ ops[4].op = "resume" /\ ops[4].context = "A"
    /\ clock = ops[4].at + 5
    /\ elapsed(times, "A", clock) = 15

\* C10: a context on which resume was never called has elapsed 0 at every
\* clock value, and a pause of it records an accumulated time of 0.
C10_NeverResumedZero ==
    \A context \in Contexts :
        (\A i \in OpsOn(context) : ops[i].op # "resume") =>
            /\ elapsed(times, context, clock) = 0
            /\ context \in DOMAIN times => times[context][1] = 0

(***************************************************************************)
(* frame_stack (utils.py:88-99), the pure Python variant                   *)
(***************************************************************************)

\* Deepest call stack examined.
MaxDepth == 4
Codes == {"c1", "c2"}

\* A frame object that is not on the chain.
Foreign == MaxDepth + 1

f_back(fr) == fr - 1
f_code(fr) == chain[fr]

\* The while loop of lines 94-98, from frame fr with the deque frs.
RECURSIVE walk(_, _, _, _)
walk(fr, base, ignoring, frs) ==
    IF fr # 0 /\ fr # base
    THEN walk(f_back(fr), base, ignoring,
              IF f_code(fr) \notin ignoring THEN <<fr>> \o frs ELSE frs)
    ELSE frs

frame_stack_Append(fr, base, ignoring) == Reverse(walk(fr, base, ignoring, <<>>))

frame_stack(fr, base, ignoring) == walk(fr, base, ignoring, <<>>)

FramesInit ==
    /\ chain \in UNION {[1..n -> Codes] : n \in 0..MaxDepth}
    /\ frame \in 0..Len(chain)
    /\ base_frame \in (0..Len(chain)) \cup {Foreign}
    /\ ignoring_codes \in SUBSET Codes
    /\ returned = None

\* A call frame_stack(frame, base_frame, ignoring_codes).
FrameStack ==
    /\ returned = None
    /\ returned' = Some(frame_stack(frame, base_frame, ignoring_codes))
    /\ UNCHANGED <<chain, frame, base_frame, ignoring_codes, exceptFrames>>

FramesNext == FrameStack

InitFrames ==
    FramesInit /\ RunnableIdle /\ DeferralIdle /\ SamplerIdle /\ TimerIdle
    /\ ProfilerIdle
    /\ GreenletIdle
    /\ SamplingIdle

SpecFrames == InitFrames /\ [][FramesNext]_vars

\* The frames from the argument frame outwards, up to the base frame
\* (excluded) when it is met on the way and to the end of the chain
\* otherwise, without those whose code is ignored.
Kept ==
    LET last == IF base_frame \in 1..frame THEN base_frame ELSE 0
    IN  {i \in (last + 1)..frame : chain[i] \notin ignoring_codes}

\* C11: frame_stack returns exactly the frames of the caller chain from the
\* given frame outwards, up to but excluding base_frame (or to the end of the
\* chain), with the frames whose code is ignored removed, oldest first: an
\* ignored frame does not stop the walk, and base_frame stops it even when
\* its own code is not ignored.
C11_FrameStack ==
    returned # None =>
        LET r == returned[1]
        IN  /\ {r[i] : i \in 1..Len(r)} = Kept
            /\ Len(r) = Cardinality(Kept)
            /\ \A i, j \in 1..Len(r) : i < j => r[i] < r[j]

\* A walk that passes an ignored frame, keeps a frame on either side of it
\* and stops at a base frame whose code is not ignored.
C11_Witness ==
    /\ returned = Some(<<2, 4>>)
    /\ frame = 4 /\ base_frame = 1
    /\ chain[3] \in ignoring_codes
    /\ chain[1] \notin ignoring_codes

(***************************************************************************)
(* Profiler (profiler.py:18-58)                                            *)
(***************************************************************************)

\* Samples the root holds at most.
MaxSamples == 1
\* Largest reading of either clock.
MaxTime == 2

\* The profiler as its methods see it.
Profiler ==
    [stats |-> stats, cpu_time_started |-> cpu_time_started,
     wall_time_started |-> wall_time_started, running |-> running]

\* max(0, x)
max0(x) == IF 0 > x THEN 0 ELSE x

\* Profiler.start with stats.clear() left out.
Profiler_start_NoClear(p, cpu, wall) ==
    [p EXCEPT !.cpu_time_started = Some(cpu), !.wall_time_started = Some(wall)]

\* Profiler.start, lines 36-38: what precedes the call of Runnable.start.
Profiler_start(p, cpu, wall) ==
    [p EXCEPT !.cpu_time_started = Some(cpu),
              !.wall_time_started = Some(wall),
              !.stats = 0]

\* Profiler.result without max(0, ...).
result_NoClamp(p, cpu, wall) ==
    IF p.cpu_time_started = None \/ p.wall_time_started = None
    THEN [stats |-> p.stats, cpu_time |-> 0, wall_time |-> 0]
    ELSE [stats |-> p.stats,
          cpu_time |-> cpu - p.cpu_time_started[1],
          wall_time |-> wall - p.wall_time_started[1]]

\* Profiler.result: reading an attribute that was never set raises
\* AttributeError, which line 56 catches.
result(p, cpu, wall) ==
    IF p.cpu_time_started = None \/ p.wall_time_started = None
    THEN [stats |-> p.stats, cpu_time |-> 0, wall_time |-> 0]
    ELSE [stats |-> p.stats,
          cpu_time |-> max0(cpu - p.cpu_time_started[1]),
          wall_time |-> max0(wall - p.wall_time_started[1])]

\* The record of a start() or result() call entered now.
Entered(op, res) ==
    Some([op |-> op, result |-> res, cpu |-> cpu_clock, wall |-> wall_clock,
          before |-> Profiler])

\* The record of another call, or of a sample.
Did(op, res) == Some([op |-> op, result |-> res])

\* Profiler has no run() of its own: a subclass supplies it. start() sees it
\* up to its first yield and stop() up to what follows.
ProfilerInit ==
    /\ runBody \in {b \in RunBodies : Len(b) <= 1}
    /\ runTerm \in Terms
    /\ running = None
    /\ calls = <<>>
    /\ ProfilerIdle

\* time.clock() advances.
CpuTick ==
    /\ cpu_clock < MaxTime
    /\ cpu_clock' = cpu_clock + 1
    /\ UNCHANGED <<stats, cpu_time_started, wall_time_started, at, wall_clock,
                   result_value, event, runnableVars, exceptProfiler>>

\* time.time() advances.
WallTick ==
    /\ wall_clock < MaxTime
    /\ wall_clock' = wall_clock + 1
    /\ UNCHANGED <<stats, cpu_time_started, wall_time_started, at, cpu_clock,
                   result_value, event, runnableVars, exceptProfiler>>

\* The system time is set back.
WallSetBack ==
    /\ wall_clock > 0
    /\ wall_clock' = wall_clock - 1
    /\ UNCHANGED <<stats, cpu_time_started, wall_time_started, at, cpu_clock,
                   result_value, event, runnableVars, exceptProfiler>>

\* Profiler.start, lines 36-38.
ProfilerStartEnter ==
    /\ at = "idle"
    /\ LET p == Profiler_start(Profiler, cpu_clock, wall_clock)
       IN  /\ stats' = p.stats
           /\ cpu_time_started' = p.cpu_time_started
           /\ wall_time_started' = p.wall_time_started
    /\ at' = "L39"
    /\ event' = Entered("start", "entered")
    /\ UNCHANGED <<cpu_clock, wall_clock, result_value, runnableVars,
                   exceptProfiler>>

\* Profiler.start, line 39: Runnable.start.
ProfilerStartRun ==
    /\ at = "L39"
    /\ LET c == start(runBody, runTerm, running)
       IN  /\ running' = c.running
           /\ event' = Some([event[1] EXCEPT !.result = c.result])
    /\ at' = "idle"
    /\ UNCHANGED <<stats, cpu_time_started, wall_time_started, cpu_clock,
                   wall_clock, result_value, runBody, runTerm, calls,
                   exceptProfiler>>

\* Runnable.stop of the profiler.
ProfilerStop ==
    /\ at = "idle"
    /\ LET c == stop(runBody, runTerm, running)
       IN  /\ running' = c.running
           /\ event' = Did("stop", c.result)
    /\ UNCHANGED <<stats, cpu_time_started, wall_time_started, at, cpu_clock,
                   wall_clock, result_value, runBody, runTerm, calls,
                   exceptProfiler>>

\* The running sampler gives the profiler a sample.
ProfilerSample ==
    /\ at = "idle"
    /\ is_running(running)
    /\ stats < MaxSamples
    /\ stats' = stats + 1
    /\ event' = Did("sample", "ok")
    /\ UNCHANGED <<cpu_time_started, wall_time_started, at, cpu_clock,
                   wall_clock, result_value, runnableVars, exceptProfiler>>

\* Profiler.result
ProfilerResult ==
    /\ at = "idle"
    /\ result_value' = Some(result(Profiler, cpu_clock, wall_clock))
    /\ event' = Entered("result", "ok")
    /\ UNCHANGED <<stats, cpu_time_started, wall_time_started, at, cpu_clock,
                   wall_clock, runnableVars, exceptProfiler>>

ProfilerNext ==
    \/ CpuTick
    \/ WallTick
    \/ WallSetBack
    \/ ProfilerStartEnter
    \/ ProfilerStartRun
    \/ ProfilerStop
    \/ ProfilerSample
    \/ ProfilerResult

InitProfiler ==
    ProfilerInit /\ DeferralIdle /\ SamplerIdle /\ TimerIdle /\ FramesIdle
    /\ GreenletIdle
    /\ SamplingIdle

SpecProfiler == InitProfiler /\ [][ProfilerNext]_vars

\* The time from a recorded start to now, 0 if nothing was recorded or now
\* reads earlier than the start.
Since(started, now) ==
    IF started = None THEN 0
    ELSE IF now < started[1] THEN 0 ELSE now - started[1]

\* C12: Profiler.result() never raises and changes no profiler state, in any
\* lifecycle state: on a profiler that was never started it returns the
\* root with CPU time 0 and wall time 0, and after a start() it returns for
\* each clock max(0, now - start), which is not negative even when the clock
\* reads earlier than the recorded start.
C12_Result ==
    (event # None /\ event[1].op = "result") =>
        LET c == event[1]
        IN  /\ c.result = "ok"
            /\ Profiler = c.before
            /\ result_value =
                  Some([stats |-> stats,
                        cpu_time |-> Since(cpu_time_started, c.cpu),
                        wall_time |-> Since(wall_time_started, c.wall)])
            /\ result_value[1].cpu_time >= 0
            /\ result_value[1].wall_time >= 0

\* result() called on a running profiler when the wall clock reads earlier
\* than the recorded start.
C12_Witness ==
    /\ event # None /\ event[1].op = "result"
    /\ is_running(running)
    /\ wall_time_started # None /\ event[1].wall < wall_time_started[1]
    /\ cpu_time_started # None /\ event[1].cpu > cpu_time_started[1]
    /\ result_value[1].wall_time = 0

\* The latest call was a start() that returned normally.
Started == at = "idle" /\ event # None /\ event[1].op = "start"
           /\ event[1].result = "ok"

\* C13: every successful Profiler.start() empties the root and records fresh
\* CPU and wall timestamps: right after it returns the root holds no
\* statistics of a previous cycle and result() measures from this start.
C13_FreshStart ==
    Started =>
        /\ stats = 0
        /\ cpu_time_started = Some(event[1].cpu)
        /\ wall_time_started = Some(event[1].wall)
        /\ LET r == result(Profiler, cpu_clock, wall_clock)
           IN  /\ r.stats = 0
               /\ r.cpu_time = Since(Some(event[1].cpu), cpu_clock)
               /\ r.wall_time = Since(Some(event[1].wall), wall_clock)

\* A successful start() of a profiler whose root held samples of an earlier
\* cycle, with timestamps of that cycle.
C13_Witness ==
    /\ Started
    /\ event[1].before.stats > 0
    /\ event[1].before.cpu_time_started # None
    /\ event[1].before.cpu_time_started # cpu_time_started
    /\ stats = 0

\* C19: a Profiler.start() rejected because the profiler is running already
\* leaves the profiler unchanged: the root keeps its statistics and the
\* start timestamps keep their values.
C19_RejectedStartNoEffect ==
    (at = "idle" /\ event # None /\ event[1].op = "start"
       /\ event[1].result = "RuntimeError") =>
        Profiler = event[1].before

(***************************************************************************)
(* GreenletTimer (timers.py:74-91)                                         *)
(***************************************************************************)

\* Number of traced switches in one behaviour.
MaxSwitches == 3

\* GreenletTimer._trace(event, (origin, target)): the dict after the call.
\* A fiber's context is its id.
trace(d, origin, target, now) == resume(pause(d, origin, now), target, now)

GreenletInit ==
    /\ TimerInit
    /\ tracer = None
    /\ current \in Contexts
    /\ started_at = None
    /\ switches = <<>>

\* GreenletTimer.run up to its yield (line 89), once per behaviour.
GreenletStart ==
    /\ tracer = None /\ started_at = None
    /\ tracer' = Some("_trace")
    /\ started_at' = Some(clock)
    /\ UNCHANGED <<current, switches, timerVars, exceptGreenlet>>

\* greenlet switches from the current fiber to another one and calls the
\* trace hook, if one is set.
Switch(target) ==
    /\ target # current
    /\ current' = target
    /\ IF tracer # None
       THEN /\ Len(switches) < MaxSwitches
            /\ times' = trace(times, current, target, clock)
            /\ switches' = Append(switches, [origin |-> current,
                                             target |-> target, at |-> clock])
       ELSE UNCHANGED <<times, switches>>
    /\ UNCHANGED <<tracer, started_at, clock, ops, exceptGreenlet>>

\* GreenletTimer.run after its yield (line 91).
GreenletStop ==
    /\ tracer # None
    /\ tracer' = None
    /\ UNCHANGED <<current, started_at, switches, timerVars, exceptGreenlet>>

GreenletNext ==
    \/ Tick
    \/ GreenletStart
    \/ \E target \in Contexts : Switch(target)
    \/ GreenletStop

InitGreenlet ==
    GreenletInit /\ RunnableIdle /\ DeferralIdle /\ SamplerIdle /\ FramesIdle
    /\ ProfilerIdle
    /\ SamplingIdle

SpecGreenlet == InitGreenlet /\ [][GreenletNext]_vars

\* The i-th moment of the run of the timer: its start, the traced switches,
\* now; and the fiber scheduled from the i-th moment to the next.
Moment(i) ==
    IF i = 0 THEN started_at[1]
    ELSE IF i = Len(switches) + 1 THEN clock ELSE switches[i].at
ScheduledFrom(i) ==
    IF i > 0 THEN switches[i].target
    ELSE IF switches # <<>> THEN switches[1].origin ELSE current

\* The time fiber f was the scheduled one from the start of the timer to
\* the (i+1)-th moment.
RECURSIVE Scheduled(_, _)
Scheduled(f, i) ==
    IF i < 0 THEN 0
    ELSE Scheduled(f, i - 1)
         + (IF ScheduledFrom(i) = f THEN Moment(i + 1) - Moment(i) ELSE 0)

\* C14: while a GreenletTimer runs, after any sequence of switches in which
\* each origin is the target of the switch before, the elapsed time of
\* every fiber is the total clock time the fiber was the scheduled one since
\* the timer started, the fiber that was running when the timer started (the
\* origin of the first switch) included.
C14_ScheduledTime ==
    (tracer # None /\ switches # <<>>) =>
        \A f \in Contexts :
            elapsed(times, f, clock) = Scheduled(f, Len(switches))

(***************************************************************************)
(* Sampling events                                                         *)
(*                                                                         *)
(* A SIGPROF handler runs in the main thread, between two of its           *)
(* instructions.  A profile function is a per-thread setting:              *)
(* sys.setprofile sets that of the calling thread, and a thread started by *)
(* the threading module sets its own to the hook threading.setprofile      *)
(* stored last.  A call/return event of the main thread runs _profile as   *)
(* one step; one of another thread can be preempted between the check of   *)
(* line 68 and the assignment of line 70.                                  *)
(***************************************************************************)

\* ItimerSampler.main_thread_id (samplers.py:41): the thread that imported
\* the module, taken to be the main thread.
main_thread_id == "main"

\* The threads that are alive.
Live == {"main"} \cup {w \in Workers : threads[w] = "alive"}

\* The profile function of thread t.
ProfileOf(t) == IF t = "main" THEN proc.sys_profile ELSE thread_profile[t]

\* Sampler.current_frames() called in thread t: for every live thread its
\* innermost frame, which for t itself is the frame of the callback, not
\* the frame of the code the callback was called for.
current_frames(t) ==
    [x \in Live |-> IF x = t THEN <<"callback", x>> ELSE <<"code", x>>]

\* The frame argument a callback gets in thread t.
FrameArg(t) == <<"code", t>>

\* for frame in frames.values(): profiler.sample(frame), as the sequence of
\* the arguments of sample.
RECURSIVE values(_)
values(frames) ==
    IF DOMAIN frames = {} THEN <<>>
    ELSE LET k == CHOOSE k \in DOMAIN frames : TRUE
         IN  <<frames[k]>> \o values([x \in DOMAIN frames \ {k} |-> frames[x]])

\* handle_signal that samples the snapshot as it is.
handle_signal_Unpatched(frames, frame_) == values(frames)

\* ItimerSampler.handle_signal, lines 44-48, with frames the snapshot of
\* line 44: the calls of profiler.sample.
handle_signal(frames, frame_) == values((main_thread_id :> frame_) @@ frames)

\* TracingSampler._profile, line 68: the event is dropped.
throttled(t, sampled, interval) == t - sampled < interval

\* TracingSampler._profile, lines 71-74, in thread ident with frames the
\* snapshot of line 71: the calls of profiler.sample.
profile_samples(frames, ident, frame_) == values((ident :> frame_) @@ frames)

\* The record of a sampling event of sampler s in thread t.
Event(s, t, accepted, t_, samples) ==
    Some([s |-> s, thread |-> t, accepted |-> accepted, at |-> t_,
          prev |-> accepted_at[s], before |-> sampled_at[s],
          live |-> Live, snapshot |-> current_frames(t), samples |-> samples,
          stopped |-> cur = None /\ ~is_running(samplerRunning[s])])

SamplingInit ==
    /\ threads \in [Workers -> {"unborn", "alive"}]
    /\ thread_profile = [w \in Workers |-> None]
    /\ sampled_at = [s \in Samplers |-> 0]
    /\ in_profile = [w \in Workers |-> None]
    /\ accepted_at = [s \in Samplers |-> None]
    /\ sampling = None

\* threading.Thread.start: the new thread sets its profile function to the
\* hook of threading.setprofile.
ThreadStart(w) ==
    /\ threads[w] = "unborn"
    /\ threads' = [threads EXCEPT ![w] = "alive"]
    /\ thread_profile' = [thread_profile EXCEPT ![w] = proc.threading_profile]
    /\ UNCHANGED <<sampled_at, in_profile, accepted_at, sampling, samplerVars,
                   timerVars, exceptSampling>>

\* A thread ends, outside of a callback.
ThreadExit(w) ==
    /\ threads[w] = "alive" /\ in_profile[w] = None
    /\ threads' = [threads EXCEPT ![w] = "dead"]
    /\ UNCHANGED <<thread_profile, sampled_at, in_profile, accepted_at,
                   sampling, samplerVars, timerVars, exceptSampling>>

\* SIGPROF is delivered while the timer is armed and the handler of
\* sampler s is installed: handle_signal runs in the main thread.
HandleSignal(s) ==
    /\ proc.SIGPROF = handle(s)
    /\ proc.ITIMER_PROF # <<0, 0>>
    /\ sampling' = Event(s, "main", TRUE, clock,
                         handle_signal(current_frames("main"), FrameArg("main")))
    /\ UNCHANGED <<threads, thread_profile, sampled_at, in_profile,
                   accepted_at, samplerVars, timerVars, exceptSampling>>

\* A call/return event in the main thread while its profile function is
\* that of sampler s: _profile, lines 67-74.
MainProfile(s) ==
    /\ ProfileOf("main") = profile(s)
    /\ IF throttled(clock, sampled_at[s], INTERVAL)
       THEN /\ sampling' = Event(s, "main", FALSE, clock, <<>>)
            /\ UNCHANGED <<sampled_at, accepted_at>>
       ELSE /\ sampled_at' = [sampled_at EXCEPT ![s] = clock]
            /\ accepted_at' = [accepted_at EXCEPT ![s] = Some(clock)]
            /\ sampling' = Event(s, "main", TRUE, clock,
                                 profile_samples(current_frames("main"), "main",
                                                 FrameArg("main")))
    /\ UNCHANGED <<threads, thread_profile, in_profile, samplerVars,
                   timerVars, exceptSampling>>

\* A call/return event in worker thread w while its profile function is
\* that of sampler s: _profile, lines 67-69.
WorkerProfileCheck(w, s) ==
    /\ threads[w] = "alive" /\ in_profile[w] = None
    /\ ProfileOf(w) = profile(s)
    /\ IF throttled(clock, sampled_at[s], INTERVAL)
       THEN /\ sampling' = Event(s, w, FALSE, clock, <<>>)
            /\ UNCHANGED in_profile
       ELSE /\ in_profile' = [in_profile EXCEPT ![w] = Some([s |-> s, t |-> clock])]
            /\ UNCHANGED sampling
    /\ UNCHANGED <<threads, thread_profile, sampled_at, accepted_at,
                   samplerVars, timerVars, exceptSampling>>

\* _profile, lines 70-74, in worker thread w.
WorkerProfileSample(w) ==
    /\ in_profile[w] # None
    /\ LET s == in_profile[w][1].s
           t == in_profile[w][1].t
       IN  /\ sampled_at' = [sampled_at EXCEPT ![s] = t]
           /\ accepted_at' = [accepted_at EXCEPT ![s] = Some(t)]
           /\ sampling' = Event(s, w, TRUE, t,
                                profile_samples(current_frames(w), w, FrameArg(w)))
    /\ in_profile' = [in_profile EXCEPT ![w] = None]
    /\ UNCHANGED <<threads, thread_profile, samplerVars, timerVars,
                   exceptSampling>>

SamplingNext ==
    \/ SamplerNext
    \/ Tick
    \/ \E w \in Workers : ThreadStart(w) \/ ThreadExit(w) \/ WorkerProfileSample(w)
    \/ \E s \in Samplers :
          \/ HandleSignal(s)
          \/ MainProfile(s)
          \/ \E w \in Workers : WorkerProfileCheck(w, s)

\* A program with one sampler instance and its threads.
InitSampling ==
    SamplerInit(1) /\ SamplingInit /\ TimerIdle /\ RunnableIdle /\ DeferralIdle
    /\ FramesIdle /\ ProfilerIdle /\ GreenletIdle

SpecSampling == InitSampling /\ [][SamplingNext]_vars

\* C15: a call/return event of a TracingSampler is accepted only if at least
\* interval of clock time has passed since the last accepted event, and a
\* rejected event calls profiler.sample zero times and leaves sampled_at
\* unchanged; so two consecutive accepted events of one sampler are at
\* least interval apart, across stop/start cycles as well.
C15_Throttle ==
    (variant = "tracing" /\ sampling # None) =>
        LET e == sampling[1]
        IN  /\ (e.accepted /\ e.prev # None) => e.at - e.prev[1] >= INTERVAL
            /\ ~e.accepted => e.samples = <<>> /\ sampled_at[e.s] = e.before

\* C16: on every sampling event (a SIGPROF delivery of an ItimerSampler, an
\* accepted call/return event of a TracingSampler) profiler.sample is called
\* exactly once for each thread that is live in the current_frames()
\* snapshot and for no other thread; the frame passed for the interrupted
\* thread (main_thread_id) or the calling thread is the frame argument of
\* the handler, and the frame of every other thread is the snapshot's.
C16_OncePerThread ==
    (sampling # None /\ sampling[1].accepted) =>
        LET e == sampling[1]
            of(t) == {i \in 1..Len(e.samples) : e.samples[i][2] = t}
        IN  /\ Len(e.samples) = Cardinality(e.live)
            /\ \A t \in e.live :
                  /\ Cardinality(of(t)) = 1
                  /\ \A i \in of(t) :
                        e.samples[i] = IF t = e.thread THEN FrameArg(t)
                                       ELSE e.snapshot[t]

\* A SIGPROF delivery while another thread is alive.
C16_Witness ==
    /\ variant = "itimer"
    /\ sampling # None /\ sampling[1].accepted
    /\ sampling[1].live = Threads
    /\ sampling[1].samples # <<>>

\* C17: after stop() of a TracingSampler has returned, the callback is
\* installed in no thread, neither in the thread that called stop() nor in
\* a thread created while the sampler was running, so that no later
\* call/return event leads to profiler.sample.
C17_NoCallbackAfterStop ==
    variant = "tracing" =>
        \A s \in instances :
            JustReturned(s, "stop", "ok") =>
                \A t \in Live : ProfileOf(t) # profile(s)

\* Whether the instance ought to be running after the first i calls: the
\* latest start() made on a stopped instance succeeded, and no stop() was
\* called since.
RECURSIVE OughtToRun(_)
OughtToRun(i) ==
    IF i = 0 THEN FALSE
    ELSE IF calls[i].op = "stop" THEN FALSE
    ELSE IF OughtToRun(i - 1) THEN TRUE
    ELSE calls[i].result = "ok"

\* C18: is_running() is true exactly when the most recent start() succeeded
\* and no stop() has been called since: after a start() that fails (run()
\* raises, returns before yielding, or yields a value) it is false and a
\* later start() is not rejected as already started, and after any stop()
\* of a running instance it is false.
C18_IsRunning ==
    is_running(running) <=> OughtToRun(Len(calls))

\* C20: for a single ItimerSampler, in every state of start() and stop(),
\* the intermediate ones of setup and unwinding included, the profiling
\* timer is armed by the sampler only while the SIGPROF slot holds the
\* sampler's handler.
C20_ArmedOnlyWithHandler ==
    variant = "itimer" =>
        \A s \in instances :
            proc.ITIMER_PROF = <<INTERVAL, INTERVAL>> => proc.SIGPROF = handle(s)

\* stop() of a sampler started with no timer armed has disarmed the timer
\* and has not put back the previous handler yet.
C20_Witness ==
    /\ variant = "itimer"
    /\ cur = Some([s |-> 1, op |-> "stop"])
    /\ pre[1] # None /\ pre[1][1].ITIMER_PROF = <<0, 0>>
    /\ proc.ITIMER_PROF = <<0, 0>>
    /\ proc.SIGPROF = handle(1)

====
